---- MODULE Spec2Model ----
(***************************************************************************)
(* Model of bot.py: the line breaker (_wrap_text), the normalisation done  *)
(* by structure_text / _normalize_bullets_list, the paged renderer         *)
(* (build_pdf) and the slide renderer (build_slides).                      *)
(*                                                                         *)
(* A Python str is a sequence of one-character strings.  The bullet marker *)
(* U+2022 of the source is written "*" here (the module is ASCII); it is   *)
(* one character wide, as in the source.                                   *)
(***************************************************************************)
EXTENDS Integers, Sequences, FiniteSets, TLC

VARIABLES
    w_text,       \* _wrap_text: argument text
    w_max,        \* _wrap_text: argument max_chars
    w_lines,      \* _wrap_text: returned list of lines
    w_pc,         \* "call" before the call, "done" after it, "off" outside SpecWrap
    transcript,   \* handle_audio: raw_text, the transcript (not empty)
    completion,   \* the reply of the summarisation service to structure_text
    chat_data,    \* context.chat_data: last_lang, last_structured (has: keys are set)
    pdf_pages,    \* the pages of the document send_pdf delivered last
    slide_requests, \* the batchUpdate requests build_slides sent last
    pc,           \* "audio": the audio message is pending; "choice": the format keyboard is shown;
                  \* "bot": updates arrive in any order (SpecBot)
    services,     \* _SLIDES_SERVICE and _DRIVE_SERVICE are set
    requests,     \* history: one record per audio update handled, in order
    doc_req,      \* history: the audio update chat_data["last_structured"] was built from (0: none)
    clicks,       \* history: the number of callback queries handled
    last          \* history: what the handler that ran last did

wrapVars == <<w_text, w_max, w_lines, w_pc>>
botVars == <<transcript, completion, chat_data, pdf_pages, slide_requests, pc>>
logVars == <<requests, doc_req, clicks, last>>
vars == <<w_text, w_max, w_lines, w_pc, transcript, completion, chat_data, pdf_pages,
          slide_requests, pc, services, requests, doc_req, clicks, last>>

----------------------------------------------------------------------------
(* Bounds *)

MaxLen == 8        \* longest text handed to _wrap_text in SpecWrap
MaxWidth == 3      \* largest max_chars handed to _wrap_text in SpecWrap
MaxBullets == 53   \* most one-word bullets in a section of a sized record
MaxLongWords == 3  \* most words of the long bullet of a sized record
MaxAudio == 2      \* most audio updates in a run of SpecBot
MaxClicks == 2     \* most callback queries in a run of SpecBot

----------------------------------------------------------------------------
(* Python str helpers.  Every loop of the source is a step operator (the    *)
(* loop body) and a range operator that runs the iterations lo..hi as the  *)
(* first half followed by the second half.                                 *)

WrapChars == {"a", "b", " "}

IsSpace(c) == c \in {" ", "\n", "\t"}

\* all strings over alphabet A of length <= n
StringsUpTo(A, n) == UNION {[1..k -> A] : k \in 0..n}

Mid(lo, hi) == (lo + hi) \div 2

\* e, once v has been evaluated: the first half of a loop runs before the second
After(v, e) == IF v = v THEN e ELSE e

\* str.split() reading one character: cur is the word being read, acc the words so far
SplitStep(st, c) ==
    IF IsSpace(c)
    THEN [cur |-> <<>>, acc |-> IF st.cur = <<>> THEN st.acc ELSE Append(st.acc, st.cur)]
    ELSE [cur |-> Append(st.cur, c), acc |-> st.acc]

RECURSIVE SplitRange(_, _, _, _)
SplitRange(st, s, lo, hi) ==
    IF lo > hi THEN st
    ELSE IF lo = hi THEN SplitStep(st, s[lo])
    ELSE LET half == SplitRange(st, s, lo, Mid(lo, hi))
         IN  After(half, SplitRange(half, s, Mid(lo, hi) + 1, hi))

\* text.split(): the maximal runs of non-whitespace characters, in order
Split(s) ==
    LET st == SplitRange([cur |-> <<>>, acc |-> <<>>], s, 1, Len(s))
    IN  IF st.cur = <<>> THEN st.acc ELSE Append(st.acc, st.cur)

RECURSIVE JoinRange(_, _, _, _)
JoinRange(sep, ws, lo, hi) ==
    IF lo > hi THEN <<>>
    ELSE IF lo = hi THEN ws[lo]
    ELSE JoinRange(sep, ws, lo, Mid(lo, hi)) \o sep \o JoinRange(sep, ws, Mid(lo, hi) + 1, hi)

\* sep.join(ws)
Join(sep, ws) == JoinRange(sep, ws, 1, Len(ws))

RECURSIVE ConcatRange(_, _, _)
\* the concatenation of the sequences ss[lo..hi]
ConcatRange(ss, lo, hi) ==
    IF lo > hi THEN <<>>
    ELSE IF lo = hi THEN ss[lo]
    ELSE ConcatRange(ss, lo, Mid(lo, hi)) \o ConcatRange(ss, Mid(lo, hi) + 1, hi)

Concat(ss) == ConcatRange(ss, 1, Len(ss))

----------------------------------------------------------------------------
(* _wrap_text *)

\* WrapStep, not counting the separating space in add
WrapStep_NoSeparator(st, w, max_chars) ==
    LET add == Len(w)
    IN  IF st.cur_len + add > max_chars
        THEN [lines |-> Append(st.lines, Join(<<" ">>, st.line)), line |-> <<w>>, cur_len |-> Len(w)]
        ELSE [lines |-> st.lines, line |-> Append(st.line, w), cur_len |-> st.cur_len + add]

\* WrapStep, starting the new line empty instead of with the word that did not fit
WrapStep_DropWord(st, w, max_chars) ==
    LET add == Len(w) + (IF st.line # <<>> THEN 1 ELSE 0)
    IN  IF st.cur_len + add > max_chars
        THEN [lines |-> Append(st.lines, Join(<<" ">>, st.line)), line |-> <<>>, cur_len |-> 0]
        ELSE [lines |-> st.lines, line |-> Append(st.line, w), cur_len |-> st.cur_len + add]

\* the body of the for-loop of _wrap_text for the word w; st holds lines, line, cur_len
WrapStep(st, w, max_chars) ==
    LET add == Len(w) + (IF st.line # <<>> THEN 1 ELSE 0)
    IN  IF st.cur_len + add > max_chars
        THEN [lines |-> Append(st.lines, Join(<<" ">>, st.line)), line |-> <<w>>, cur_len |-> Len(w)]
        ELSE [lines |-> st.lines, line |-> Append(st.line, w), cur_len |-> st.cur_len + add]

RECURSIVE WrapRange(_, _, _, _, _)
WrapRange(st, words, max_chars, lo, hi) ==
    IF lo > hi THEN st
    ELSE IF lo = hi THEN WrapStep(st, words[lo], max_chars)
    ELSE LET half == WrapRange(st, words, max_chars, lo, Mid(lo, hi))
         IN  After(half, WrapRange(half, words, max_chars, Mid(lo, hi) + 1, hi))

\* the list lines when the loop is over and the pending line has been flushed
WrapLines(text, max_chars) ==
    LET words == Split(text)
        st == WrapRange([lines |-> <<>>, line |-> <<>>, cur_len |-> 0],
                        words, max_chars, 1, Len(words))
    IN  IF st.line # <<>> THEN Append(st.lines, Join(<<" ">>, st.line)) ELSE st.lines

\* _wrap_text without the final "or [\"\"]"
_wrap_text_NoDefault(text, max_chars) == WrapLines(text, max_chars)

_wrap_text(text, max_chars) ==
    LET lines == WrapLines(text, max_chars)
    IN  IF lines # <<>> THEN lines ELSE << <<>> >>

----------------------------------------------------------------------------
(* Python values as json.loads returns them.                                *)
(* tag: "absent" (key missing), "null", "bool", "num", "str", "list", "obj" *)
(* s: the characters of a str; n: the number, the truth value (0/1) or the *)
(* number of keys of an object ({} or {"k": 1}); items: the elements of a  *)
(* list, each a value without elements of its own.                         *)

Absent == [tag |-> "absent", s |-> <<>>, n |-> 0, items |-> <<>>]
Null == [tag |-> "null", s |-> <<>>, n |-> 0, items |-> <<>>]
Bool(b) == [tag |-> "bool", s |-> <<>>, n |-> b, items |-> <<>>]
Num(k) == [tag |-> "num", s |-> <<>>, n |-> k, items |-> <<>>]
Str(chars) == [tag |-> "str", s |-> chars, n |-> 0, items |-> <<>>]
List(elems) == [tag |-> "list", s |-> <<>>, n |-> 0, items |-> elems]
Obj(k) == [tag |-> "obj", s |-> <<>>, n |-> k, items |-> <<>>]

\* bool(x): Python truthiness (dict.get of a missing key gives None)
PyTruthy(v) ==
    CASE v.tag = "absent" -> FALSE
      [] v.tag = "null" -> FALSE
      [] v.tag = "bool" -> v.n = 1
      [] v.tag = "num" -> v.n # 0
      [] v.tag = "str" -> v.s # <<>>
      [] v.tag = "list" -> v.items # <<>>
      [] v.tag = "obj" -> v.n # 0

DigitChar(d) == <<"0", "1", "2", "3", "4", "5", "6", "7", "8", "9">>[d + 1]

RECURSIVE NatStr(_)
NatStr(k) == IF k < 10 THEN <<DigitChar(k)>> ELSE Append(NatStr(k \div 10), DigitChar(k % 10))

\* str(k) of an int
IntStr(k) == IF k < 0 THEN <<"-">> \o NatStr(0 - k) ELSE NatStr(k)

\* the characters of s as repr writes them
Escape(chars) ==
    Concat([i \in 1..Len(chars) |-> IF chars[i] = "\n" THEN <<"\\", "n">> ELSE <<chars[i]>>])

\* repr(x) of a value without elements
ScalarRepr(v) ==
    CASE v.tag = "null" -> <<"N", "o", "n", "e">>
      [] v.tag = "bool" -> IF v.n = 1 THEN <<"T", "r", "u", "e">> ELSE <<"F", "a", "l", "s", "e">>
      [] v.tag = "num" -> IntStr(v.n)
      [] v.tag = "str" -> <<"'">> \o Escape(v.s) \o <<"'">>
      [] v.tag = "list" -> <<"[", "]">>
      [] v.tag = "obj" -> IF v.n = 0 THEN <<"{", "}">>
                          ELSE <<"{", "'", "k", "'", ":", " ", "1", "}">>

\* str(x)
PyStr(v) ==
    CASE v.tag = "str" -> v.s
      [] v.tag = "list" -> <<"[">> \o Join(<<",", " ">>, [i \in 1..Len(v.items) |-> ScalarRepr(v.items[i])]) \o <<"]">>
      [] OTHER -> ScalarRepr(v)

\* s[:k]
Take(chars, k) == SubSeq(chars, 1, IF Len(chars) < k THEN Len(chars) ELSE k)

----------------------------------------------------------------------------
(* detect_language, t *)

\* the Cyrillic letters the model uses, each written cyr_<code point>
CyrillicChars ==
    {"cyr_0418", "cyr_041A", "cyr_041F", "cyr_0430", "cyr_0432",
    "cyr_0433", "cyr_0434", "cyr_0435", "cyr_0436", "cyr_0437", "cyr_0438",
    "cyr_0439", "cyr_043A", "cyr_043B", "cyr_043D", "cyr_043E", "cyr_043F",
    "cyr_0440", "cyr_0441", "cyr_0442", "cyr_0447", "cyr_044B", "cyr_044E"}

detect_language(text) ==
    IF \E i \in 1..Len(text) : text[i] \in CyrillicChars THEN "ru" ELSE "en"

t(lang, ru, en) == IF lang = "ru" THEN ru ELSE en

----------------------------------------------------------------------------
(* structure_text: the reply of the summarisation call is                   *)
(*   kind "object"      json.loads gives a dict, rec holds its six keys     *)
(*   kind "unparseable" json.loads raises JSONDecodeError                   *)
(*   kind "nonobject"   json.loads gives a value without .get               *)
(*   kind "api_error"   the completion call itself raises                   *)

ListKeys == <<"summary", "key_tasks", "action_plan", "conclusion">>

TitleLimit == 120
ShortLimit == 400
FallbackTitleLimit == 80
FallbackShortLimit == 200
FallbackSummaryLimit == 1000

\* the dict of the except branch, without the slices
ParseFallback_NoTruncate(raw_text) ==
    [title |-> Str(raw_text),
     short_description |-> Str(raw_text),
     summary |-> List(<<Str(raw_text)>>),
     key_tasks |-> List(<<>>),
     action_plan |-> List(<<>>),
     conclusion |-> List(<<>>)]

\* the dict structure_text returns when json.loads raises JSONDecodeError
ParseFallback(raw_text) ==
    [title |-> Str(Take(raw_text, FallbackTitleLimit)),
     short_description |-> Str(Take(raw_text, FallbackShortLimit)),
     summary |-> List(<<Str(Take(raw_text, FallbackSummaryLimit))>>),
     key_tasks |-> List(<<>>),
     action_plan |-> List(<<>>),
     conclusion |-> List(<<>>)]

\* the fallback dict handle_audio builds from the transcript when structure_text raises
FallbackData(raw_text) ==
    [title |-> Str(Take(raw_text, FallbackTitleLimit)),
     short_description |-> Str(Take(raw_text, FallbackShortLimit)),
     summary |-> List(<<Str(Take(raw_text, FallbackSummaryLimit))>>),
     key_tasks |-> List(<<>>),
     action_plan |-> List(<<>>),
     conclusion |-> List(<<>>)]

\* [str(x) for x in value if x]
StrTruthy(elems) ==
    Concat([i \in 1..Len(elems) |->
               IF PyTruthy(elems[i]) THEN <<Str(PyStr(elems[i]))>> ELSE <<>>])

\* a str is passed on as it is instead of being wrapped into a list
CoerceListField_NoWrap(value) ==
    CASE value.tag = "str" -> value
      [] value.tag = "list" -> List(StrTruthy(value.items))
      [] OTHER -> List(<<>>)

\* the body of the loop over the four list keys
CoerceListField(value) ==
    CASE value.tag = "str" -> List(<<value>>)
      [] value.tag = "list" -> List(StrTruthy(value.items))
      [] OTHER -> List(<<>>)

\* data[key] = str(data.get(key, ""))[:limit] unless it is a str already
CoerceStrField(value, limit) ==
    IF value.tag = "str" THEN value
    ELSE IF value.tag = "absent" THEN Str(<<>>)
    ELSE Str(Take(PyStr(value), limit))

\* the normalisation block of structure_text
NormalizeRecord(rec) ==
    [title |-> CoerceStrField(rec.title, TitleLimit),
     short_description |-> CoerceStrField(rec.short_description, ShortLimit),
     summary |-> CoerceListField(rec.summary),
     key_tasks |-> CoerceListField(rec.key_tasks),
     action_plan |-> CoerceListField(rec.action_plan),
     conclusion |-> CoerceListField(rec.conclusion)]

NoData == [title |-> Absent, short_description |-> Absent, summary |-> Absent,
           key_tasks |-> Absent, action_plan |-> Absent, conclusion |-> Absent]

\* structure_text(raw_text) given the reply of the summarisation service
structure_text(raw_text, reply) ==
    CASE reply.kind = "object" ->
            [raised |-> FALSE, lang |-> detect_language(raw_text), data |-> NormalizeRecord(reply.rec)]
      [] reply.kind = "unparseable" ->
            [raised |-> FALSE, lang |-> detect_language(raw_text), data |-> ParseFallback(raw_text)]
      [] OTHER ->
            [raised |-> TRUE, lang |-> "en", data |-> NoData]

\* CleanItem without the final "if text"
CleanItem_KeepEmpty(item) ==
    IF ~PyTruthy(item) THEN <<>>
    ELSE <<Join(<<" ">>, Split(PyStr(item)))>>

\* the body of the loop of _normalize_bullets_list: what item adds to cleaned
CleanItem(item) ==
    IF ~PyTruthy(item) THEN <<>>
    ELSE LET text == Join(<<" ">>, Split(PyStr(item)))
         IN  IF text # <<>> THEN <<text>> ELSE <<>>

\* _normalize_bullets_list(raw): raw is a list of values, the result a list of str
_normalize_bullets_list(raw) == Concat([i \in 1..Len(raw) |-> CleanItem(raw[i])])

\* data.get(key) or []
GetListOrEmpty(value) == IF PyTruthy(value) THEN value.items ELSE <<>>

\* data.get(key) or default, for a str field
GetStrOr(value, default) == IF PyTruthy(value) THEN value.s ELSE default

----------------------------------------------------------------------------
(* Localised strings *)

SummaryRu ==
    <<"cyr_041A", "cyr_0440", "cyr_0430", "cyr_0442", "cyr_043A",
    "cyr_043E", "cyr_0435", " ", "cyr_0441", "cyr_043E", "cyr_0434",
    "cyr_0435", "cyr_0440", "cyr_0436", "cyr_0430", "cyr_043D", "cyr_0438",
    "cyr_0435">>
SummaryEn ==
    <<"S", "u", "m", "m", "a", "r", "y">>
KeyTasksRu ==
    <<"cyr_041A", "cyr_043B", "cyr_044E", "cyr_0447", "cyr_0435",
    "cyr_0432", "cyr_044B", "cyr_0435", " ", "cyr_0437", "cyr_0430",
    "cyr_0434", "cyr_0430", "cyr_0447", "cyr_0438">>
KeyTasksEn ==
    <<"K", "e", "y", " ", "t", "a", "s", "k", "s">>
ActionPlanRu ==
    <<"cyr_041F", "cyr_043B", "cyr_0430", "cyr_043D", " ", "cyr_0434",
    "cyr_0435", "cyr_0439", "cyr_0441", "cyr_0442", "cyr_0432", "cyr_0438",
    "cyr_0439">>
ActionPlanEn ==
    <<"A", "c", "t", "i", "o", "n", " ", "p", "l", "a", "n">>
ConclusionRu ==
    <<"cyr_0418", "cyr_0442", "cyr_043E", "cyr_0433">>
ConclusionEn ==
    <<"C", "o", "n", "c", "l", "u", "s", "i", "o", "n">>
DefaultTitleRu ==
    <<"cyr_041A", "cyr_043E", "cyr_043D", "cyr_0441", "cyr_043F",
    "cyr_0435", "cyr_043A", "cyr_0442">>
DefaultTitleEn ==
    <<"S", "u", "m", "m", "a", "r", "y">>

\* the heading of the section stored under key
SectionTitle(lang, key) ==
    CASE key = "summary" -> t(lang, SummaryRu, SummaryEn)
      [] key = "key_tasks" -> t(lang, KeyTasksRu, KeyTasksEn)
      [] key = "action_plan" -> t(lang, ActionPlanRu, ActionPlanEn)
      [] key = "conclusion" -> t(lang, ConclusionRu, ConclusionEn)

----------------------------------------------------------------------------
(* build_pdf.  Lengths are in 1/100 pt.  The canvas is the list of finished *)
(* pages and the list of drawing operations of the page being drawn; a text *)
(* object is its own list of operations and the cursor y, which textLine   *)
(* lowers by the leading (1.2 times the font size).  Every operation       *)
(* records the call that issued it in sec: "title" or the section key.     *)

PageHeight == 84189          \* A4: 297 mm
margin == 7200
body_font == 1100
max_chars == 60
header_text_y == PageHeight - 4000
footer_text_y == 4000
footer_line_y == footer_text_y + 600
bottom_limit == footer_line_y + 2500
Leading == (body_font * 12) \div 10
TitleY == PageHeight - 12000
ShortY == PageHeight - 17000
HeadingY == PageHeight - margin
SectionTextY == PageHeight - margin - 3000

BulletPrefix == <<"*", " ">>
ContinuationPrefix == <<" ", " ", " ">>

EmptyCanvas == [pages |-> <<>>, cur |-> <<>>]

DrawOp(c, kind, sec, txt, y) ==
    [c EXCEPT !.cur = Append(@, [op |-> kind, sec |-> sec, txt |-> txt, y |-> y])]

draw_header(c, sec) == DrawOp(c, "header", sec, <<>>, header_text_y)

draw_footer(c, sec) == DrawOp(c, "footer", sec, <<>>, footer_text_y)

\* c.showPage()
showPage(c) == [pages |-> Append(c.pages, c.cur), cur |-> <<>>]

\* c.beginText(x, y)
beginText(y) == [ops |-> <<>>, y |-> y]

\* text.textLine(txt)
textLine(text, sec, txt) ==
    [ops |-> Append(text.ops, [op |-> "textLine", sec |-> sec, txt |-> txt, y |-> text.y]),
     y |-> text.y - Leading]

\* c.drawText(text)
drawText(c, text) == [c EXCEPT !.cur = @ \o text.ops]

RECURSIVE TextLinesRange(_, _, _, _, _)
\* text.textLine(line) for the lines lo..hi
TextLinesRange(text, sec, lines, lo, hi) ==
    IF lo > hi THEN text
    ELSE IF lo = hi THEN textLine(text, sec, lines[lo])
    ELSE LET half == TextLinesRange(text, sec, lines, lo, Mid(lo, hi))
         IN  After(half, TextLinesRange(half, sec, lines, Mid(lo, hi) + 1, hi))

\* the title page left open: its c.showPage() is missing
TitlePage_NoShowPage(c, title, short) ==
    LET c1 == DrawOp(draw_header(c, "title"), "title", "title", title, TitleY)
        c2 == IF short # <<>>
              THEN LET lines == _wrap_text(short, max_chars)
                   IN  drawText(c1, TextLinesRange(beginText(ShortY), "title",
                                                   lines, 1, Len(lines)))
              ELSE c1
    IN  draw_footer(c2, "title")

\* the title page, up to and including its showPage
TitlePage(c, title, short) ==
    LET c1 == DrawOp(draw_header(c, "title"), "title", "title", title, TitleY)
        c2 == IF short # <<>>
              THEN LET lines == _wrap_text(short, max_chars)
                   IN  drawText(c1, TextLinesRange(beginText(ShortY), "title",
                                                   lines, 1, Len(lines)))
              ELSE c1
    IN  showPage(draw_footer(c2, "title"))

\* the start of a section page without draw_header()
StartSectionPage_NoHeader(c, sec, heading) ==
    [c |-> DrawOp(c, "heading", sec, heading, HeadingY),
     text |-> beginText(SectionTextY)]

\* draw_header, the heading and a new text object: the start of every section page
StartSectionPage(c, sec, heading) ==
    [c |-> DrawOp(draw_header(c, sec), "heading", sec, heading, HeadingY),
     text |-> beginText(SectionTextY)]

\* DrawLine, drawing the text object as it was before the line that crossed bottom_limit
DrawLine_LoseLine(st, sec, heading, lines, i) ==
    LET prefix == IF i = 1 THEN BulletPrefix ELSE ContinuationPrefix
        text1 == textLine(st.text, sec, prefix \o lines[i])
    IN  IF text1.y < bottom_limit
        THEN StartSectionPage(showPage(draw_footer(drawText(st.c, st.text), sec)),
                              sec, heading)
        ELSE [c |-> st.c, text |-> text1]

\* DrawLine putting the bullet marker on whatever line opens a page
DrawLine_MarkAfterBreak(st, sec, heading, lines, i) ==
    LET prefix == IF i = 1 \/ st.text.ops = <<>> THEN BulletPrefix ELSE ContinuationPrefix
        text1 == textLine(st.text, sec, prefix \o lines[i])
    IN  IF text1.y < bottom_limit
        THEN StartSectionPage(showPage(draw_footer(drawText(st.c, text1), sec)),
                              sec, heading)
        ELSE [c |-> st.c, text |-> text1]

\* the body of the inner loop for lines[i] (i counted from 1); st is (c, text)
DrawLine(st, sec, heading, lines, i) ==
    LET prefix == IF i = 1 THEN BulletPrefix ELSE ContinuationPrefix
        text1 == textLine(st.text, sec, prefix \o lines[i])
    IN  IF text1.y < bottom_limit
        THEN StartSectionPage(showPage(draw_footer(drawText(st.c, text1), sec)),
                              sec, heading)
        ELSE [c |-> st.c, text |-> text1]

RECURSIVE DrawLinesRange(_, _, _, _, _, _)
DrawLinesRange(st, sec, heading, lines, lo, hi) ==
    IF lo > hi THEN st
    ELSE IF lo = hi THEN DrawLine(st, sec, heading, lines, lo)
    ELSE LET half == DrawLinesRange(st, sec, heading, lines, lo, Mid(lo, hi))
         IN  After(half, DrawLinesRange(half, sec, heading, lines, Mid(lo, hi) + 1, hi))

\* the body of the outer loop for one bullet: its lines, then the blank line
DrawBullet(st, sec, heading, bullet) ==
    LET lines == _wrap_text(bullet, max_chars)
        st1 == DrawLinesRange(st, sec, heading, lines, 1, Len(lines))
    IN  [c |-> st1.c, text |-> textLine(st1.text, sec, <<>>)]

RECURSIVE DrawBulletsRange(_, _, _, _, _, _)
DrawBulletsRange(st, sec, heading, bullets, lo, hi) ==
    IF lo > hi THEN st
    ELSE IF lo = hi THEN DrawBullet(st, sec, heading, bullets[lo])
    ELSE LET half == DrawBulletsRange(st, sec, heading, bullets, lo, Mid(lo, hi))
         IN  After(half, DrawBulletsRange(half, sec, heading, bullets, Mid(lo, hi) + 1, hi))

\* draw_section without the early return for an empty bullet list
draw_section_NoGuard(c, sec, heading, raw_bullets) ==
    LET bullets == _normalize_bullets_list(raw_bullets)
        st == DrawBulletsRange(StartSectionPage(c, sec, heading), sec, heading,
                               bullets, 1, Len(bullets))
    IN  showPage(draw_footer(drawText(st.c, st.text), sec))

\* draw_section without its final c.showPage()
draw_section_NoShowPage(c, sec, heading, raw_bullets) ==
    LET bullets == _normalize_bullets_list(raw_bullets)
    IN  IF bullets = <<>> THEN c
        ELSE LET st == DrawBulletsRange(StartSectionPage(c, sec, heading), sec, heading,
                                        bullets, 1, Len(bullets))
             IN  draw_footer(drawText(st.c, st.text), sec)

\* draw_section(heading, bullets) on canvas c; sec is the key the bullets come from
draw_section(c, sec, heading, raw_bullets) ==
    LET bullets == _normalize_bullets_list(raw_bullets)
    IN  IF bullets = <<>> THEN c
        ELSE LET st == DrawBulletsRange(StartSectionPage(c, sec, heading), sec, heading,
                                        bullets, 1, Len(bullets))
             IN  showPage(draw_footer(drawText(st.c, st.text), sec))

RECURSIVE DrawSections(_, _, _, _)
\* the four draw_section calls, in the order of the source
DrawSections(c, lang, data, k) ==
    IF k > Len(ListKeys) THEN c
    ELSE DrawSections(draw_section(c, ListKeys[k], SectionTitle(lang, ListKeys[k]),
                                   GetListOrEmpty(data[ListKeys[k]])),
                      lang, data, k + 1)

\* c.save(): a page that has been drawn on and not closed is closed first
save(c) == IF c.cur # <<>> THEN showPage(c) ELSE c

\* build_pdf(lang, data): the pages of the saved document
build_pdf(lang, data) ==
    LET title == GetStrOr(data.title, t(lang, DefaultTitleRu, DefaultTitleEn))
        short == GetStrOr(data.short_description, <<>>)
    IN  save(DrawSections(TitlePage(EmptyCanvas, title, short), lang, data, 1)).pages

----------------------------------------------------------------------------
(* build_slides: the batchUpdate request list.  A request is                 *)
(*   req "deleteObject" | "createSlide" | "createShape" | "insertText",     *)
(*   objectId, pageObjectId (createShape), text (insertText).               *)
(* sec and chunk record the section key and the bullets of the chunk the   *)
(* request was built for ("title" and no bullets on the title slide).      *)

chunk_size == 7

KeyChars(key) ==
    CASE key = "summary" -> <<"s", "u", "m", "m", "a", "r", "y">>
      [] key = "key_tasks" -> <<"k", "e", "y", "_", "t", "a", "s", "k", "s">>
      [] key = "action_plan" -> <<"a", "c", "t", "i", "o", "n", "_", "p", "l", "a", "n">>
      [] key = "conclusion" -> <<"c", "o", "n", "c", "l", "u", "s", "i", "o", "n">>

TitleSlideId == <<"t", "i", "t", "l", "e", "-", "s", "l", "i", "d", "e">>
TitleBoxId == <<"t", "i", "t", "l", "e", "-", "b", "o", "x">>
SubtitleBoxId == <<"s", "u", "b", "t", "i", "t", "l", "e", "-", "b", "o", "x">>
FirstSlideId == <<"p">>

Request(req, objectId, pageObjectId, text, sec, chunk) ==
    [req |-> req, objectId |-> objectId, pageObjectId |-> pageObjectId,
     text |-> text, sec |-> sec, chunk |-> chunk]

\* the five requests of one slide: the slide, its title box and its body box
SlideRequests(slide_id, title_id, title_text, body_id, body_text, sec, chunk) ==
    << Request("createSlide", slide_id, <<>>, <<>>, sec, chunk),
       Request("createShape", title_id, slide_id, <<>>, sec, chunk),
       Request("insertText", title_id, <<>>, title_text, sec, chunk),
       Request("createShape", body_id, slide_id, <<>>, sec, chunk),
       Request("insertText", body_id, <<>>, body_text, sec, chunk) >>

title_slide(title, subtitle) ==
    SlideRequests(TitleSlideId, TitleBoxId, title, SubtitleBoxId, subtitle, "title", <<>>)

\* bullets[idx : idx + chunk_size + 1]: one bullet too many
ChunkAt_OneMore(bullets, idx) ==
    SubSeq(bullets, idx + 1,
           IF idx + chunk_size + 1 < Len(bullets) THEN idx + chunk_size + 1 ELSE Len(bullets))

\* bullets[idx : idx + chunk_size], idx counted from 0
ChunkAt(bullets, idx) ==
    SubSeq(bullets, idx + 1,
           IF idx + chunk_size < Len(bullets) THEN idx + chunk_size ELSE Len(bullets))

\* the heading repeated verbatim on every slide of the section
TitleWithSuffix_None(title_text, idx) == title_text

\* title_with_suffix
TitleWithSuffix(title_text, idx) ==
    IF idx = 0 THEN title_text
    ELSE title_text \o <<" ", "(">> \o IntStr(idx \div chunk_size + 1) \o <<")">>

\* ChunkSlide naming every slide of a section after its first chunk
ChunkSlide_SameId(title_text, bullets, base_id, idx) ==
    LET chunk == ChunkAt(bullets, idx)
        n == IntStr(0)
        slide_id == KeyChars(base_id) \o <<"-">> \o n
        title_shape_id == <<"t", "i", "t", "l", "e", "-">> \o KeyChars(base_id) \o <<"-">> \o n
        body_shape_id == <<"b", "o", "d", "y", "-">> \o KeyChars(base_id) \o <<"-">> \o n
    IN  SlideRequests(slide_id, title_shape_id, TitleWithSuffix(title_text, idx), body_shape_id,
                      Join(<<"\n">>, [i \in 1..Len(chunk) |-> BulletPrefix \o chunk[i]]),
                      base_id, chunk)

\* the body of the loop of bullets_slides_for_section for one idx
ChunkSlide(title_text, bullets, base_id, idx) ==
    LET chunk == ChunkAt(bullets, idx)
        n == IntStr(idx \div chunk_size)
        slide_id == KeyChars(base_id) \o <<"-">> \o n
        title_shape_id == <<"t", "i", "t", "l", "e", "-">> \o KeyChars(base_id) \o <<"-">> \o n
        body_shape_id == <<"b", "o", "d", "y", "-">> \o KeyChars(base_id) \o <<"-">> \o n
    IN  SlideRequests(slide_id, title_shape_id, TitleWithSuffix(title_text, idx), body_shape_id,
                      Join(<<"\n">>, [i \in 1..Len(chunk) |-> BulletPrefix \o chunk[i]]),
                      base_id, chunk)

RECURSIVE ChunkLoop(_, _, _, _)
\* the loop "for idx in range(0, len(bullets), chunk_size)" from idx on
ChunkLoop(title_text, bullets, base_id, idx) ==
    IF idx >= Len(bullets) THEN <<>>
    ELSE ChunkSlide(title_text, bullets, base_id, idx)
         \o ChunkLoop(title_text, bullets, base_id, idx + chunk_size)

bullets_slides_for_section(title_text, bullets, base_id) ==
    ChunkLoop(title_text, bullets, base_id, 0)

\* the str elements of a list of str values
StrsOf(elems) == [i \in 1..Len(elems) |-> PyStr(elems[i])]

RECURSIVE SectionSlides_Reversed(_, _, _)
\* SectionSlides visiting the keys in the opposite order
SectionSlides_Reversed(slides_data, lang, k) ==
    IF k > Len(ListKeys) THEN <<>>
    ELSE LET key == ListKeys[Len(ListKeys) + 1 - k]
             bullets == slides_data[key]
         IN  (IF bullets = <<>> THEN <<>>
              ELSE bullets_slides_for_section(SectionTitle(lang, key), StrsOf(bullets), key))
             \o SectionSlides_Reversed(slides_data, lang, k + 1)

RECURSIVE SectionSlides(_, _, _)
\* the loop over slides_data.items(), in insertion order
SectionSlides(slides_data, lang, k) ==
    IF k > Len(ListKeys) THEN <<>>
    ELSE LET key == ListKeys[k]
             bullets == slides_data[key]
         IN  (IF bullets = <<>> THEN <<>>
              ELSE bullets_slides_for_section(SectionTitle(lang, key), StrsOf(bullets), key))
             \o SectionSlides(slides_data, lang, k + 1)

_slides_title_and_bullets_requests(title, subtitle, slides_data, lang) ==
    title_slide(title, subtitle) \o SectionSlides(slides_data, lang, 1)

\* the request list build_slides sends in its batchUpdate
build_slides_requests(lang, data) ==
    LET title == GetStrOr(data.title, t(lang, DefaultTitleRu, DefaultTitleEn))
        short == GetStrOr(data.short_description, <<>>)
        slides_data == [summary |-> GetListOrEmpty(data.summary),
                        key_tasks |-> GetListOrEmpty(data.key_tasks),
                        action_plan |-> GetListOrEmpty(data.action_plan),
                        conclusion |-> GetListOrEmpty(data.conclusion)]
    IN  <<Request("deleteObject", FirstSlideId, <<>>, <<>>, "title", <<>>)>>
        \o _slides_title_and_bullets_requests(title, short, slides_data, lang)

----------------------------------------------------------------------------
(* The handlers: handle_audio from the transcript on, handle_format_choice *)

\* no handler has run yet
NoEvent ==
    [handler |-> "none", origin |-> 0, fmt |-> "none", fail_at |-> "none", msgs |-> <<>>,
     invoked |-> FALSE, doc_req |-> 0, created |-> FALSE, filled |-> FALSE, shared |-> FALSE]

NoChatData == [has |-> FALSE, last_lang |-> "en", last_structured |-> NoData]

\* the i-th one-word bullet
Bullet(i) == <<"b">> \o IntStr(i)

\* a word of 31 characters: two of them do not fit a line of max_chars
LongWord(j) == [k \in 1..31 |-> IF k = 31 THEN DigitChar(j % 10) ELSE "w"]

\* a bullet of j long words, which wraps to j lines
LongBullet(j) == Join(<<" ">>, [k \in 1..j |-> LongWord(k)])

\* a word wider than max_chars
WideWord == [k \in 1..61 |-> "x"]

\* k one-word bullets and, if j > 0, a bullet of j lines before or after them
SizedList(k, j, front) ==
    LET short == [i \in 1..k |-> Str(Bullet(i))]
        long == IF j > 0 THEN <<Str(LongBullet(j))>> ELSE <<>>
    IN  List(IF front THEN long \o short ELSE short \o long)

TwoLineText ==
    <<"o", "n", "e", " ", "t", "w", "o", " ", "t", "h", "r", "e", "e", " ",
    "f", "o", "u", "r", " ", "f", "i", "v", "e", " ", "s", "i", "x", " ",
    "s", "e", "v", "e", "n", " ", "e", "i", "g", "h", "t", " ", "n", "i",
    "n", "e", " ", "t", "e", "n", " ", "e", "l", "e", "v", "e", "n", " ",
    "t", "w", "e", "l", "v", "e", " ", "t", "h", "i", "r", "t", "e", "e",
    "n">>

EnText ==
    <<"c", "a", "l", "l", " ", "t", "h", "e", " ", "p", "l", "u", "m", "b",
    "e", "r">>

RuText ==
    <<"cyr_041F", "cyr_0440", "cyr_0438", "cyr_0432", "cyr_0435",
    "cyr_0442", " ", "a", " ", "b">>

\* a transcript longer than FallbackTitleLimit
LongText == Join(<<" ">>, [k \in 1..12 |-> <<"w", "o", "r", "d", "s", "0", "1", DigitChar(k % 10)>>])

\* a transcript longer than FallbackSummaryLimit
VeryLongText ==
    Join(<<" ">>, [k \in 1..(FallbackSummaryLimit \div 9 + 20) |->
                      <<"w", "o", "r", "d", "s", DigitChar((k \div 10) % 10), DigitChar(k % 10), ".">>])

Ones(k) == List([i \in 1..k |-> Num(1)])

\* the shapes a list field of the reply is tried with
ListShapes ==
    { Absent, Null, Num(7), Obj(1), Str(<<>>), Str(<<" ">>),
      Str(<<"a", "\n", " ", "b">>), Str(TwoLineText), List(<<>>),
      List(<<Str(<<>>), Str(<<" ">>)>>),
      List(<<Str(<<"a", " ", " ", "b">>), Num(0), Num(5), Null, Bool(1),
             Str(<<" ", "\n">>), List(<<>>), Obj(0), Obj(1)>>),
      List(<<Str(WideWord \o <<" ">> \o Bullet(1))>>) }

FewListShapes == { Absent, List(<<Str(Bullet(1))>>), Str(<<" ">>) }

TitleShapes ==
    { Absent, Null, Num(0 - 12), Bool(0), Str(<<>>), Str(<<"P", "l", "a", "n">>),
      Ones(TitleLimit \div 3 + 1), Obj(1) }

ShortShapes ==
    { Absent, Str(<<>>), Str(TwoLineText), Ones(ShortLimit \div 3 + 1), Num(3) }

ObjectReply(title, short, summary, key_tasks, action_plan, conclusion) ==
    [kind |-> "object",
     rec |-> [title |-> title, short_description |-> short, summary |-> summary,
              key_tasks |-> key_tasks, action_plan |-> action_plan,
              conclusion |-> conclusion]]

PlanTitle == Str(<<"P", "l", "a", "n">>)

\* replies whose list fields range over the shapes
ShapedReplies ==
    { ObjectReply(PlanTitle, Str(<<>>), s1, s2, s3, s4) :
        s1 \in ListShapes, s2 \in ListShapes, s3 \in FewListShapes, s4 \in FewListShapes }

\* replies whose title and short_description range over the shapes
TitledReplies ==
    { ObjectReply(ti, sh, s1, Null, Obj(1), Absent) :
        ti \in TitleShapes, sh \in ShortShapes, s1 \in {Absent, List(<<Str(Bullet(1))>>)} }

\* replies whose sections are long enough to break pages and to fill slides
SizedReplies ==
    { ObjectReply(PlanTitle, Str(<<>>), SizedList(k, j, f), s2, Absent, s4) :
        k \in 0..MaxBullets, j \in 0..MaxLongWords, f \in BOOLEAN,
        s2 \in {List(<<>>), SizedList(chunk_size + 1, 0, TRUE)},
        s4 \in {Absent, List(<<Str(Bullet(1))>>)} }

\* the rows draw_section places on a page before it breaks: the cursor is
\* below bottom_limit after that many lines
LinesPerPage == (SectionTextY - bottom_limit) \div Leading + 1

\* replies whose only section is one Summary bullet that fills a page, one row
\* less and one row more
FullPageReplies ==
    { ObjectReply(PlanTitle, Str(TwoLineText), List(<<Str(LongBullet(j))>>), Absent, Null, List(<<>>)) :
        j \in (LinesPerPage - 1)..(LinesPerPage + 1) }

FailedReplies ==
    { [kind |-> k, rec |-> NoData] : k \in {"unparseable", "nonobject", "api_error"} }

\* the (transcript, reply) pairs the model starts from
Inputs ==
    ({EnText} \X (ShapedReplies \cup TitledReplies \cup SizedReplies \cup FullPageReplies))
    \cup ({EnText, RuText, LongText}
          \X (FailedReplies \cup {ObjectReply(Absent, Absent, SizedList(chunk_size + 1, 2, f), Null, Null, Null) : f \in BOOLEAN}))
    \cup ({VeryLongText} \X FailedReplies)

Init ==
    /\ \E in \in Inputs : transcript = in[1] /\ completion = in[2]
    /\ chat_data = NoChatData
    /\ pdf_pages = <<>>
    /\ slide_requests = <<>>
    /\ pc = "audio"
    /\ w_text = <<>>
    /\ w_max = 1
    /\ w_lines = <<>>
    /\ w_pc = "off"
    /\ services = FALSE
    /\ requests = <<>>
    /\ doc_req = 0
    /\ clicks = 0
    /\ last = NoEvent

\* handle_audio once the transcript is there: structure_text, the fallback of
\* the except branch, and the two chat_data assignments
HandleAudio ==
    /\ pc = "audio"
    /\ LET r == structure_text(transcript, completion)
           lang == IF r.raised THEN detect_language(transcript) ELSE r.lang
           data == IF r.raised THEN FallbackData(transcript) ELSE r.data
       IN  chat_data' = [has |-> TRUE, last_lang |-> lang, last_structured |-> data]
    /\ pc' = "choice"
    /\ UNCHANGED <<transcript, completion, pdf_pages, slide_requests, services>>
    /\ UNCHANGED wrapVars
    /\ UNCHANGED logVars

\* handle_format_choice with query.data = "format_pdf": send_pdf
FormatPdf ==
    /\ pc = "choice"
    /\ chat_data.has
    /\ pdf_pages' = build_pdf(chat_data.last_lang, chat_data.last_structured)
    /\ UNCHANGED <<transcript, completion, chat_data, slide_requests, pc, services>>
    /\ UNCHANGED wrapVars
    /\ UNCHANGED logVars

\* handle_format_choice with query.data = "format_slides": send_slides
FormatSlides ==
    /\ pc = "choice"
    /\ chat_data.has
    /\ slide_requests' = build_slides_requests(chat_data.last_lang, chat_data.last_structured)
    /\ services' = TRUE
    /\ UNCHANGED <<transcript, completion, chat_data, pdf_pages, pc>>
    /\ UNCHANGED wrapVars
    /\ UNCHANGED logVars

Next == HandleAudio \/ FormatPdf \/ FormatSlides

Spec == Init /\ [][Next]_vars

----------------------------------------------------------------------------
(* Properties of the renderers and of the normalisation, under Spec *)

\* the document the renderers are called with
Doc == chat_data.last_structured

\* the bullets draw_section draws for the section stored under key
NormalizedBullets(key) == _normalize_bullets_list(GetListOrEmpty(Doc[key]))

\* the bullets build_slides hands to the slide renderer for the section stored under key
SlideBullets(key) == StrsOf(GetListOrEmpty(Doc[key]))

IsBlank(chars) == \A i \in 1..Len(chars) : IsSpace(chars[i])

IsMarked(txt) == Len(txt) >= 2 /\ SubSeq(txt, 1, 2) = BulletPrefix

\* the texts of the textLine operations of section key, in page order
SectionLines(pages, key) ==
    LET ops == Concat([p \in 1..Len(pages) |->
                         SelectSeq(pages[p], LAMBDA o : o.op = "textLine" /\ o.sec = key)])
    IN  [i \in 1..Len(ops) |-> ops[i].txt]

\* the same without the blank lines between bullets
BulletLines(pages, key) == SelectSeq(SectionLines(pages, key), LAMBDA txt : txt # <<>>)

\* the prefixed wrapped lines of the bullets, in order
ExpectedLines(bullets) ==
    Concat([b \in 1..Len(bullets) |->
              LET ls == _wrap_text(bullets[b], max_chars)
              IN  [i \in 1..Len(ls) |->
                      (IF i = 1 THEN BulletPrefix ELSE ContinuationPrefix) \o ls[i]]])

\* C4: over all pages, the marked first lines of each section are as many as
\* its normalized bullets, and the wrapped lines of its bullets are drawn
\* exactly once each, in order, whatever page breaks occur.
C4_BulletsDrawnOnce ==
    pdf_pages # <<>> =>
        \A k \in 1..Len(ListKeys) :
            LET drawn == BulletLines(pdf_pages, ListKeys[k])
            IN  /\ drawn = ExpectedLines(NormalizedBullets(ListKeys[k]))
                /\ Len(SelectSeq(drawn, IsMarked)) = Len(NormalizedBullets(ListKeys[k]))

\* a page of a section begins with a continuation line: the break fell inside a bullet
C4_Witness ==
    \E p \in 1..Len(pdf_pages) :
        /\ Len(pdf_pages[p]) >= 4
        /\ pdf_pages[p][2].op = "heading"
        /\ pdf_pages[p][3].op = "textLine"
        /\ pdf_pages[p][3].txt # <<>>
        /\ ~IsMarked(pdf_pages[p][3].txt)

\* C5: every finished page holds operations of one section only (or of the
\* title page), and every section page begins with the header followed by
\* the heading of that section.
C5_OneSectionPerPage ==
    \A p \in 1..Len(pdf_pages) :
        LET page == pdf_pages[p]
        IN  /\ \A i \in 1..Len(page) : page[i].sec = page[1].sec
            /\ page[1].op = "header"
            /\ page[1].sec # "title" =>
                  /\ page[2].op = "heading"
                  /\ page[2].txt = SectionTitle(chat_data.last_lang, page[1].sec)
                  /\ \A i \in 3..Len(page) : page[i].op \in {"textLine", "footer"}

\* pages of three different sections, one of them continued on a second page
C5_Witness ==
    /\ \E p \in 1..Len(pdf_pages) : pdf_pages[p][1].sec = "key_tasks"
    /\ \E p \in 1..Len(pdf_pages) : pdf_pages[p][1].sec = "conclusion"
    /\ \E p \in 1..(Len(pdf_pages) - 1) :
          pdf_pages[p][1].sec = "summary" /\ pdf_pages[p + 1][1].sec = "summary"

\* the requests of kind req built for section key, in batch order
SectionRequests(key, req) ==
    SelectSeq(slide_requests, LAMBDA r : r.sec = key /\ r.req = req)

\* the text inserted into the shape objectId
InsertedText(objectId) ==
    LET rs == SelectSeq(slide_requests, LAMBDA r : r.req = "insertText" /\ r.objectId = objectId)
    IN  [i \in 1..Len(rs) |-> rs[i].text]

TitlePrefix == <<"t", "i", "t", "l", "e", "-">>
BodyPrefix == <<"b", "o", "d", "y", "-">>

\* C6: a section handed to the slide renderer with n >= 1 bullets gets
\* ceil(n / chunk_size) slides; the
\* first carries the section heading verbatim, the slide of chunk index
\* i > 0 the heading followed by " (i+1)".
C6_SlideCountAndHeadings ==
    slide_requests # <<>> =>
        \A k \in 1..Len(ListKeys) :
            LET key == ListKeys[k]
                n == Len(SlideBullets(key))
                slides == SectionRequests(key, "createSlide")
                heading == SectionTitle(chat_data.last_lang, key)
            IN  n >= 1 =>
                  /\ Len(slides) = (n + chunk_size - 1) \div chunk_size
                  /\ \A i \in 1..Len(slides) :
                        InsertedText(TitlePrefix \o slides[i].objectId) =
                            << IF i = 1 THEN heading
                               ELSE heading \o <<" ", "(">> \o IntStr(i) \o <<")">> >>

\* a section of more than two full chunks has been rendered
C6_Witness ==
    /\ slide_requests # <<>>
    /\ \E k \in 1..Len(ListKeys) :
          /\ Len(SlideBullets(ListKeys[k])) > 2 * chunk_size
          /\ Len(SectionRequests(ListKeys[k], "createSlide")) >= 3

\* C7: the chunks of a section are an order-preserving partition of its
\* bullets: each slide holds 1..chunk_size bullets, only the last slide may
\* hold fewer than chunk_size, and the chunks in slide order concatenate to
\* the bullet sequence; the body text of a slide is its marked bullets.
C7_ChunksPartition ==
    slide_requests # <<>> =>
        \A k \in 1..Len(ListKeys) :
            LET key == ListKeys[k]
                slides == SectionRequests(key, "createSlide")
            IN  /\ \A i \in 1..Len(slides) :
                      /\ Len(slides[i].chunk) \in 1..chunk_size
                      /\ i < Len(slides) => Len(slides[i].chunk) = chunk_size
                      /\ InsertedText(BodyPrefix \o slides[i].objectId) =
                            << Join(<<"\n">>, [j \in 1..Len(slides[i].chunk) |->
                                                  BulletPrefix \o slides[i].chunk[j]]) >>
                /\ Concat([i \in 1..Len(slides) |-> slides[i].chunk]) = SlideBullets(key)

\* a section whose last slide is not full, after at least one full slide
C7_Witness ==
    /\ slide_requests # <<>>
    /\ \E k \in 1..Len(ListKeys) :
          LET slides == SectionRequests(ListKeys[k], "createSlide")
          IN  /\ Len(slides) >= 2
              /\ Len(slides[Len(slides)].chunk) < chunk_size

\* the bullet clean-up applied to a list field
CleanListField(value) ==
    LET cleaned == _normalize_bullets_list(GetListOrEmpty(value))
    IN  List([i \in 1..Len(cleaned) |-> Str(cleaned[i])])

\* all normalisation rules applied to a record: the coercions of
\* structure_text, then the bullet clean-up on each list field
Normalized(rec) ==
    LET d == NormalizeRecord(rec)
    IN  [title |-> d.title,
         short_description |-> d.short_description,
         summary |-> CleanListField(d.summary),
         key_tasks |-> CleanListField(d.key_tasks),
         action_plan |-> CleanListField(d.action_plan),
         conclusion |-> CleanListField(d.conclusion)]

\* C8: normalising the normalized form of the stored document again changes nothing.
C8_NormalizeIdempotent ==
    chat_data.has => Normalized(Normalized(Doc)) = Normalized(Doc)

\* the normalisation had something to do: a list field came as a str, and
\* the clean-up changes the stored document
C8_Witness ==
    /\ chat_data.has
    /\ completion.kind = "object"
    /\ completion.rec.summary.tag = "str"
    /\ completion.rec.key_tasks.tag = "list"
    /\ Normalized(Doc) # Doc

IsStrValue(v) == v.tag = "str" /\ v.items = <<>>

\* C9: handle_audio always ends with a stored document, and in it title and
\* short_description are strings and the four list fields are lists of strings.
C9_CompleteDocument ==
    /\ pc = "choice" => chat_data.has
    /\ chat_data.has =>
          /\ IsStrValue(Doc.title)
          /\ IsStrValue(Doc.short_description)
          /\ \A k \in 1..Len(ListKeys) :
                /\ Doc[ListKeys[k]].tag = "list"
                /\ \A i \in 1..Len(Doc[ListKeys[k]].items) :
                      IsStrValue(Doc[ListKeys[k]].items[i])

\* a reply whose fields are null, a number, absent and an object has been structured
C9_Witness ==
    /\ chat_data.has
    /\ completion.kind = "object"
    /\ completion.rec.title.tag = "null"
    /\ completion.rec.short_description.tag = "num"
    /\ completion.rec.summary.tag = "absent"
    /\ completion.rec.action_plan.tag = "obj"

\* the marked line at position i of lines starts a bullet whose lines, up to
\* the next blank line, hold nothing but their prefixes and whitespace
BlankBulletAt(lines, i) ==
    /\ IsMarked(lines[i])
    /\ \A j \in i..Len(lines) :
          (\A m \in i..j : lines[m] # <<>>) => IsBlank(lines[j])

\* C10: no page and no slide holds an empty or whitespace-only bullet, and a
\* section whose bullets are all empty or whitespace-only gets no page and
\* no slide.
C10_NoBlankBullet ==
    \A k \in 1..Len(ListKeys) :
        LET key == ListKeys[k]
            lines == SectionLines(pdf_pages, key)
            slides == SectionRequests(key, "createSlide")
        IN  /\ \A i \in 1..Len(lines) : ~BlankBulletAt(lines, i)
            /\ \A i \in 1..Len(slides) :
                  \A j \in 1..Len(slides[i].chunk) : ~IsBlank(slides[i].chunk[j])
            /\ (chat_data.has /\ \A j \in 1..Len(SlideBullets(key)) : IsBlank(SlideBullets(key)[j]))
                  => /\ \A p \in 1..Len(pdf_pages) : pdf_pages[p][1].sec # key
                     /\ slides = <<>>

\* C11: a section with zero bullets emits nothing: the paged renderer draws
\* no operation for it and every page after the title page belongs to a
\* section that has bullets; the slide renderer builds no request for it.
C11_EmptySectionSkipped ==
    /\ pdf_pages # <<>> =>
          /\ \A k \in 1..Len(ListKeys) :
                NormalizedBullets(ListKeys[k]) = <<>> =>
                    \A p \in 1..Len(pdf_pages) : \A i \in 1..Len(pdf_pages[p]) :
                        pdf_pages[p][i].sec # ListKeys[k]
          /\ \A p \in 2..Len(pdf_pages) :
                \E k \in 1..Len(ListKeys) :
                    /\ pdf_pages[p][1].sec = ListKeys[k]
                    /\ NormalizedBullets(ListKeys[k]) # <<>>
    /\ slide_requests # <<>> =>
          \A k \in 1..Len(ListKeys) :
              SlideBullets(ListKeys[k]) = <<>> =>
                  \A i \in 1..Len(slide_requests) : slide_requests[i].sec # ListKeys[k]

\* both renderers have run on a document with an empty section between two others
C11_Witness ==
    /\ pdf_pages # <<>>
    /\ slide_requests # <<>>
    /\ SlideBullets("key_tasks") # <<>>
    /\ SlideBullets("action_plan") = <<>>
    /\ SlideBullets("conclusion") # <<>>

\* the place of a section in the fixed order; the title page or slide comes first
SecRank(sec) ==
    CASE sec = "title" -> 0
      [] sec = "summary" -> 1
      [] sec = "key_tasks" -> 2
      [] sec = "action_plan" -> 3
      [] sec = "conclusion" -> 4

\* C12: in both outputs the sections appear in the order Summary, Key tasks,
\* Action plan, Conclusion: no page or slide request of a later section
\* precedes one of an earlier section.
C12_FixedSectionOrder ==
    /\ \A p, q \in 1..Len(pdf_pages) :
          p < q => SecRank(pdf_pages[p][1].sec) <= SecRank(pdf_pages[q][1].sec)
    /\ \A i, j \in 1..Len(slide_requests) :
          i < j => SecRank(slide_requests[i].sec) <= SecRank(slide_requests[j].sec)

\* both outputs hold Summary, Key tasks and Conclusion, Action plan being empty
C12_Witness ==
    /\ \A sec \in {"summary", "key_tasks", "conclusion"} :
          /\ \E p \in 1..Len(pdf_pages) : pdf_pages[p][1].sec = sec
          /\ \E i \in 1..Len(slide_requests) : slide_requests[i].sec = sec
    /\ SlideBullets("action_plan") = <<>>
    /\ Len(SectionRequests("summary", "createSlide")) >= 2

\* the title and the short description build_pdf reads from the document
PdfTitle == GetStrOr(Doc.title, t(chat_data.last_lang, DefaultTitleRu, DefaultTitleEn))

PdfShortLines ==
    LET short == GetStrOr(Doc.short_description, <<>>)
    IN  IF short # <<>> THEN _wrap_text(short, max_chars) ELSE <<>>

\* the first page is the title page and no other page holds anything of it
TitlePageFirst(pages) ==
    /\ Len(pages) >= 1
    /\ LET p == pages[1]
       IN  /\ Len(p) = 3 + Len(PdfShortLines)
           /\ p[1].op = "header"
           /\ p[2].op = "title" /\ p[2].txt = PdfTitle
           /\ \A i \in 1..Len(PdfShortLines) :
                 p[2 + i].op = "textLine" /\ p[2 + i].txt = PdfShortLines[i]
           /\ p[Len(p)].op = "footer"
           /\ \A i \in 1..Len(p) : p[i].sec = "title"
    /\ \A q \in 2..Len(pages) : \A i \in 1..Len(pages[q]) :
          pages[q][i].sec # "title" /\ pages[q][i].op # "title"

\* C18: every run of build_pdf yields exactly one title page, as the first
\* page, for every document: it holds the header, the title, the lines of the
\* short description if there is one, and the footer, and nothing of a
\* section; all section content is on later pages.
C18_TitlePageFirst == [][FormatPdf => TitlePageFirst(pdf_pages')]_vars

\* a document whose four sections are empty was rendered to the title page
\* alone, short description included
C18_Witness ==
    /\ Len(pdf_pages) = 1
    /\ Len(pdf_pages[1]) > 3
    /\ \A k \in 1..Len(ListKeys) : NormalizedBullets(ListKeys[k]) = <<>>

\* C20: no text line of a bullet, first or continuation, is drawn while the
\* cursor is below bottom_limit, the first line after the blank line between
\* two bullets included.
C20_NoLineBelowLimit ==
    \A p \in 2..Len(pdf_pages) : \A i \in 1..Len(pdf_pages[p]) :
        (pdf_pages[p][i].op = "textLine" /\ pdf_pages[p][i].txt # <<>>)
            => pdf_pages[p][i].y >= bottom_limit

\* ceil(a / b) for b > 0
CeilDiv(a, b) == (a + b - 1) \div b

\* the document has bullets in its Summary and in no other section
OnlySummary ==
    /\ NormalizedBullets("summary") # <<>>
    /\ \A k \in 2..Len(ListKeys) : NormalizedBullets(ListKeys[k]) = <<>>

\* C16: a document whose only non-empty section is Summary, its bullets
\* wrapping to L lines in total, is rendered to the title page plus exactly
\* ceil(L / K) Summary pages, K being the lines a page takes, and to no page
\* of another section, also when L is a multiple of K.
C16_SummaryPageCount ==
    (pdf_pages # <<>> /\ OnlySummary) =>
        LET L == Len(ExpectedLines(NormalizedBullets("summary")))
        IN  /\ Len(pdf_pages) = 1 + CeilDiv(L, LinesPerPage)
            /\ \A p \in 2..Len(pdf_pages) : pdf_pages[p][1].sec = "summary"

\* s is the text raw_text cut to at most n characters
IsPrefixUpTo(s, raw_text, n) ==
    /\ Len(s) = IF Len(raw_text) < n THEN Len(raw_text) ELSE n
    /\ \A i \in 1..Len(s) : s[i] = raw_text[i]

\* C17: when the reply of the summarisation service cannot be parsed,
\* structure_text does not raise and the stored document is the degraded one:
\* title and short_description are the transcript cut to 80 and 200
\* characters, summary holds one bullet, the transcript cut to 1000
\* characters, the other lists are empty; both renderers emit nothing but the
\* title page or slide and Summary pages or slides.
C17_DegradedDocument ==
    (completion.kind = "unparseable" /\ chat_data.has) =>
        /\ ~structure_text(transcript, completion).raised
        /\ Doc.title.tag = "str"
        /\ IsPrefixUpTo(Doc.title.s, transcript, FallbackTitleLimit)
        /\ Doc.short_description.tag = "str"
        /\ IsPrefixUpTo(Doc.short_description.s, transcript, FallbackShortLimit)
        /\ Doc.summary.tag = "list"
        /\ Len(Doc.summary.items) = 1
        /\ Doc.summary.items[1].tag = "str"
        /\ IsPrefixUpTo(Doc.summary.items[1].s, transcript, FallbackSummaryLimit)
        /\ \A k \in 2..Len(ListKeys) : Doc[ListKeys[k]] = List(<<>>)
        /\ \A p \in 1..Len(pdf_pages) : pdf_pages[p][1].sec \in {"title", "summary"}
        /\ \A i \in 1..Len(slide_requests) : slide_requests[i].sec \in {"title", "summary"}

\* an unparseable reply to a transcript longer than every limit, rendered both ways
C17_Witness ==
    /\ completion.kind = "unparseable"
    /\ Len(transcript) > FallbackSummaryLimit
    /\ Len(pdf_pages) >= 2
    /\ \E i \in 1..Len(slide_requests) : slide_requests[i].sec = "summary"

\* page p continues the section of the page before it
IsContinuationPage(p) ==
    /\ p >= 3
    /\ p <= Len(pdf_pages)
    /\ pdf_pages[p][1].sec = pdf_pages[p - 1][1].sec

\* the textLine operations of a page
TextOps(page) == SelectSeq(page, LAMBDA o : o.op = "textLine")

\* C21: a page that continues a section starts with the header and the same
\* heading as the page before, without any suffix; its first line is at the
\* reset cursor and the lines follow one leading apart; a line of text that
\* opens the page continues the bullet in progress with the continuation
\* indent, never with a bullet marker; over the pages the lines of the
\* section are those of its bullets, in order.
C21_ContinuationPage ==
    /\ \A p \in 3..Len(pdf_pages) :
          IsContinuationPage(p) =>
              LET page == pdf_pages[p]
                  lines == TextOps(page)
              IN  /\ page[1].op = "header"
                  /\ page[2].op = "heading"
                  /\ page[2].y = HeadingY
                  /\ page[2].txt = pdf_pages[p - 1][2].txt
                  /\ page[2].txt = SectionTitle(chat_data.last_lang, page[1].sec)
                  /\ lines # <<>>
                  /\ page[3] = lines[1]
                  /\ \A i \in 1..Len(lines) : lines[i].y = SectionTextY - (i - 1) * Leading
                  /\ lines[1].txt # <<>> =>
                        /\ SubSeq(lines[1].txt, 1, Len(ContinuationPrefix)) = ContinuationPrefix
                        /\ ~IsMarked(lines[1].txt)
    /\ pdf_pages # <<>> =>
          \A k \in 1..Len(ListKeys) :
              BulletLines(pdf_pages, ListKeys[k]) = ExpectedLines(NormalizedBullets(ListKeys[k]))

\* a break in the middle of a bullet: the page before ends with a line of
\* text and the continuation page opens with the next line of the same bullet
C21_Witness ==
    \E p \in 3..Len(pdf_pages) :
        /\ IsContinuationPage(p)
        /\ TextOps(pdf_pages[p])[1].txt # <<>>
        /\ TextOps(pdf_pages[p - 1])[Len(TextOps(pdf_pages[p - 1]))].txt # <<>>
        /\ Len(TextOps(pdf_pages[p])) >= 2

\* how many operations of a page are of kind op
CountOps(page, op) == Len(SelectSeq(page, LAMBDA o : o.op = op))

\* C22: every finished page, be it the title page, the first page of a
\* section or a continuation page, has its header drawn exactly once, before
\* everything else on it, and its footer drawn exactly once, as the last
\* thing before the page is finished.
C22_HeaderAndFooterOnce ==
    \A p \in 1..Len(pdf_pages) :
        LET page == pdf_pages[p]
        IN  /\ Len(page) >= 2
            /\ page[1].op = "header"
            /\ page[Len(page)].op = "footer"
            /\ CountOps(page, "header") = 1
            /\ CountOps(page, "footer") = 1

\* a title page with a short description, the first page of a section and a
\* continuation page
C22_Witness ==
    /\ Len(pdf_pages) >= 3
    /\ CountOps(pdf_pages[1], "textLine") >= 1
    /\ pdf_pages[2][1].sec # "title"
    /\ \E p \in 3..Len(pdf_pages) : IsContinuationPage(p)

\* C24: every page after the title page holds at least one line of bullet
\* text: no page of header, heading and footer alone is produced, not even
\* when the last line of the last bullet of a section is the one that
\* crosses bottom_limit.
C24_NoBulletlessPage ==
    \A p \in 2..Len(pdf_pages) :
        \E i \in 1..Len(pdf_pages[p]) :
            pdf_pages[p][i].op = "textLine" /\ pdf_pages[p][i].txt # <<>>

\* request i of the batch creates an object
Creates(i) == slide_requests[i].req \in {"createSlide", "createShape"}

\* C25: in the request batch of build_slides the identifiers of the created
\* objects (title slide and its two boxes, and the slide, title box and body
\* box of every chunk of every section) are pairwise distinct, every
\* createShape names a slide created earlier in the batch and every
\* insertText names a shape created earlier in the batch.
C25_DistinctObjectIds ==
    /\ \A i, j \in 1..Len(slide_requests) :
          (i < j /\ Creates(i) /\ Creates(j)) =>
              slide_requests[i].objectId # slide_requests[j].objectId
    /\ \A i \in 1..Len(slide_requests) :
          /\ slide_requests[i].req = "createShape" =>
                \E j \in 1..(i - 1) :
                    /\ slide_requests[j].req = "createSlide"
                    /\ slide_requests[j].objectId = slide_requests[i].pageObjectId
          /\ slide_requests[i].req = "insertText" =>
                \E j \in 1..(i - 1) :
                    /\ slide_requests[j].req = "createShape"
                    /\ slide_requests[j].objectId = slide_requests[i].objectId

\* a batch with three slides of Summary and slides of two more sections
C25_Witness ==
    /\ Len(SectionRequests("summary", "createSlide")) >= 3
    /\ Len(SectionRequests("key_tasks", "createSlide")) >= 2
    /\ SectionRequests("conclusion", "createSlide") # <<>>

----------------------------------------------------------------------------
(* Specification of the line breaker alone *)

WrapInit ==
    /\ w_text \in StringsUpTo(WrapChars, MaxLen)
    /\ w_max \in 1..MaxWidth
    /\ w_lines = <<>>
    /\ w_pc = "call"
    /\ transcript = <<>>
    /\ completion = [kind |-> "api_error", rec |-> NoData]
    /\ chat_data = NoChatData
    /\ pdf_pages = <<>>
    /\ slide_requests = <<>>
    /\ pc = "off"
    /\ services = FALSE
    /\ requests = <<>>
    /\ doc_req = 0
    /\ clicks = 0
    /\ last = NoEvent

WrapCall ==
    /\ w_pc = "call"
    /\ w_lines' = _wrap_text(w_text, w_max)
    /\ w_pc' = "done"
    /\ UNCHANGED <<w_text, w_max, services>>
    /\ UNCHANGED botVars
    /\ UNCHANGED logVars

WrapNext == WrapCall

SpecWrap == WrapInit /\ [][WrapNext]_vars

\* the words of all lines, in line order
WordsOfLines(lines) == Concat([i \in 1..Len(lines) |-> Split(lines[i])])

\* C1: every returned line is at most max_chars wide, except a line that is
\* exactly one word of the text whose own width exceeds max_chars; that word
\* is returned unmodified.
C1_LineWidth ==
    w_pc = "done" =>
        \A i \in 1..Len(w_lines) :
            \/ Len(w_lines[i]) <= w_max
            \/ /\ \A k \in 1..Len(w_lines[i]) : ~IsSpace(w_lines[i][k])
               /\ \E k \in 1..Len(Split(w_text)) : Split(w_text)[k] = w_lines[i]

\* a line wider than max_chars and a line of two words both occur
C1_Witness ==
    /\ w_pc = "done"
    /\ \E i \in 1..Len(w_lines) : Len(w_lines[i]) > w_max
    /\ \E j \in 1..Len(w_lines) : Len(Split(w_lines[j])) >= 2

\* C2: the words of the returned lines, taken in line order, are exactly the
\* whitespace-split words of the text: none lost, duplicated, split or reordered.
C2_WordsPreserved ==
    w_pc = "done" => WordsOfLines(w_lines) = Split(w_text)

\* several lines, one of them holding two different words
C2_Witness ==
    /\ w_pc = "done"
    /\ Len(w_lines) >= 2
    /\ \E j \in 1..Len(w_lines) :
          /\ Len(Split(w_lines[j])) >= 2
          /\ Split(w_lines[j])[1] # Split(w_lines[j])[2]

\* C3: the result is never the empty sequence; an empty or whitespace-only
\* text gives exactly one line, the empty string.
C3_NeverEmpty ==
    w_pc = "done" =>
        /\ Len(w_lines) >= 1
        /\ (\A k \in 1..Len(w_text) : IsSpace(w_text[k])) => w_lines = << <<>> >>

\* a whitespace-only text of positive length has been wrapped
C3_Witness ==
    /\ w_pc = "done"
    /\ Len(w_text) >= 2
    /\ \A k \in 1..Len(w_text) : IsSpace(w_text[k])
    /\ w_lines = << <<>> >>

\* the width of the words i..j joined by single spaces
GroupWidth(words, i, j) ==
    LET RECURSIVE Sum(_)
        Sum(k) == IF k > j THEN 0 ELSE Len(words[k]) + Sum(k + 1)
    IN  Sum(i) + (j - i)

RECURSIVE GreedyGroups(_, _, _)
\* the number of greedy word groups of the words i..: each group takes as
\* many words as fit max_chars, and one word in any case
GreedyGroups(words, max_chars_, i) ==
    IF i > Len(words) THEN 0
    ELSE LET fits == {j \in i..Len(words) : GroupWidth(words, i, j) <= max_chars_}
             j == IF fits = {} THEN i
                  ELSE CHOOSE m \in fits : \A n \in fits : n <= m
         IN  1 + GreedyGroups(words, max_chars_, j + 1)

\* C23: when the text holds at least one word, no returned line is empty:
\* every line holds at least one word, also when the first word, or any
\* word, is wider than max_chars, and the lines are as many as the greedy
\* word groups.
C23_NoEmptyLine ==
    (w_pc = "done" /\ Split(w_text) # <<>>) =>
        /\ \A i \in 1..Len(w_lines) : Split(w_lines[i]) # <<>>
        /\ Len(w_lines) = GreedyGroups(Split(w_text), w_max, 1)

----------------------------------------------------------------------------
(* The handlers over a chat: audio updates and callback queries arrive in    *)
(* any order.  A message is [m, lang]: which text it is and the language it  *)
(* is in; a callback query names the message whose button was pressed by     *)
(* the audio update that message belongs to (0: a keyboard left from an      *)
(* earlier run of the process).                                              *)

Msg(m, lang) == [m |-> m, lang |-> lang]

\* an update handle_audio receives: what the message carries, whether the
\* file is over MAX_AUDIO_BYTES, whether download/ffmpeg/transcription
\* raises, the transcript and the reply of the summarisation service
AudioUpdate(media, big, stt, text, reply) ==
    [media |-> media, big |-> big, stt |-> stt, text |-> text, reply |-> reply]

NoReply == [kind |-> "api_error", rec |-> NoData]

OneBulletReply ==
    ObjectReply(PlanTitle, Str(<<>>), List(<<Str(Bullet(1))>>), Absent, Absent, Absent)

AudioUpdates ==
    { AudioUpdate("text", FALSE, "ok", <<>>, NoReply),
      AudioUpdate("audio", TRUE, "ok", <<>>, NoReply),
      AudioUpdate("voice", FALSE, "raise", <<>>, NoReply),
      AudioUpdate("voice", FALSE, "ok", <<" ">>, NoReply),
      AudioUpdate("voice", FALSE, "ok", EnText, OneBulletReply),
      AudioUpdate("document", FALSE, "ok", RuText, NoReply) }

\* handle_audio storing a document for an empty transcript
handle_audio_StoreOnEmpty(upd) ==
    IF upd.media \notin {"voice", "audio", "document"}
    THEN [kind |-> "not_audio", msgs |-> <<Msg("only_audio", "ru")>>,
          store |-> FALSE, lang |-> "en", data |-> NoData]
    ELSE IF upd.big
    THEN [kind |-> "too_big", msgs |-> <<Msg("too_big", "ru")>>,
          store |-> FALSE, lang |-> "en", data |-> NoData]
    ELSE IF upd.stt = "raise"
    THEN [kind |-> "stt_failed", msgs |-> <<Msg("analysing", "ru"), Msg("retry_prompt", "ru")>>,
          store |-> FALSE, lang |-> "en", data |-> NoData]
    ELSE IF IsBlank(upd.text)
    THEN [kind |-> "empty", msgs |-> <<Msg("analysing", "ru"), Msg("heard_nothing", "ru")>>,
          store |-> TRUE, lang |-> "en", data |-> FallbackData(upd.text)]
    ELSE LET r == structure_text(upd.text, upd.reply)
             lang == IF r.raised THEN detect_language(upd.text) ELSE r.lang
             data == IF r.raised THEN FallbackData(upd.text) ELSE r.data
         IN  [kind |-> IF r.raised THEN "fallback" ELSE "structured",
              msgs |-> <<Msg("analysing", "ru"), Msg("format_keyboard", lang)>>,
              store |-> TRUE, lang |-> lang, data |-> data]

\* handle_audio without the two chat_data assignments
handle_audio_NeverStores(upd) ==
    IF upd.media \notin {"voice", "audio", "document"}
    THEN [kind |-> "not_audio", msgs |-> <<Msg("only_audio", "ru")>>,
          store |-> FALSE, lang |-> "en", data |-> NoData]
    ELSE IF upd.big
    THEN [kind |-> "too_big", msgs |-> <<Msg("too_big", "ru")>>,
          store |-> FALSE, lang |-> "en", data |-> NoData]
    ELSE IF upd.stt = "raise"
    THEN [kind |-> "stt_failed", msgs |-> <<Msg("analysing", "ru"), Msg("retry_prompt", "ru")>>,
          store |-> FALSE, lang |-> "en", data |-> NoData]
    ELSE IF IsBlank(upd.text)
    THEN [kind |-> "empty", msgs |-> <<Msg("analysing", "ru"), Msg("heard_nothing", "ru")>>,
          store |-> FALSE, lang |-> "en", data |-> NoData]
    ELSE LET r == structure_text(upd.text, upd.reply)
             lang == IF r.raised THEN detect_language(upd.text) ELSE r.lang
             data == IF r.raised THEN FallbackData(upd.text) ELSE r.data
         IN  [kind |-> IF r.raised THEN "fallback" ELSE "structured",
              msgs |-> <<Msg("analysing", "ru"), Msg("format_keyboard", lang)>>,
              store |-> FALSE, lang |-> lang, data |-> data]

\* handle_audio storing a document although the transcription step raised
handle_audio_StoreOnRaise(upd) ==
    IF upd.media \notin {"voice", "audio", "document"}
    THEN [kind |-> "not_audio", msgs |-> <<Msg("only_audio", "ru")>>,
          store |-> FALSE, lang |-> "en", data |-> NoData]
    ELSE IF upd.big
    THEN [kind |-> "too_big", msgs |-> <<Msg("too_big", "ru")>>,
          store |-> FALSE, lang |-> "en", data |-> NoData]
    ELSE IF upd.stt = "raise"
    THEN [kind |-> "stt_failed", msgs |-> <<Msg("analysing", "ru"), Msg("retry_prompt", "ru")>>,
          store |-> TRUE, lang |-> "en", data |-> FallbackData(upd.text)]
    ELSE IF IsBlank(upd.text)
    THEN [kind |-> "empty", msgs |-> <<Msg("analysing", "ru"), Msg("heard_nothing", "ru")>>,
          store |-> FALSE, lang |-> "en", data |-> NoData]
    ELSE LET r == structure_text(upd.text, upd.reply)
             lang == IF r.raised THEN detect_language(upd.text) ELSE r.lang
             data == IF r.raised THEN FallbackData(upd.text) ELSE r.data
         IN  [kind |-> IF r.raised THEN "fallback" ELSE "structured",
              msgs |-> <<Msg("analysing", "ru"), Msg("format_keyboard", lang)>>,
              store |-> TRUE, lang |-> lang, data |-> data]

\* what handle_audio does with an update: the messages it sends or edits in,
\* in order, and the (lang, data) it stores, if it gets that far
handle_audio(upd) ==
    IF upd.media \notin {"voice", "audio", "document"}
    THEN [kind |-> "not_audio", msgs |-> <<Msg("only_audio", "ru")>>,
          store |-> FALSE, lang |-> "en", data |-> NoData]
    ELSE IF upd.big
    THEN [kind |-> "too_big", msgs |-> <<Msg("too_big", "ru")>>,
          store |-> FALSE, lang |-> "en", data |-> NoData]
    ELSE IF upd.stt = "raise"
    THEN [kind |-> "stt_failed", msgs |-> <<Msg("analysing", "ru"), Msg("retry_prompt", "ru")>>,
          store |-> FALSE, lang |-> "en", data |-> NoData]
    ELSE IF IsBlank(upd.text)
    THEN [kind |-> "empty", msgs |-> <<Msg("analysing", "ru"), Msg("heard_nothing", "ru")>>,
          store |-> FALSE, lang |-> "en", data |-> NoData]
    ELSE LET r == structure_text(upd.text, upd.reply)
             lang == IF r.raised THEN detect_language(upd.text) ELSE r.lang
             data == IF r.raised THEN FallbackData(upd.text) ELSE r.data
         IN  [kind |-> IF r.raised THEN "fallback" ELSE "structured",
              msgs |-> <<Msg("analysing", "ru"), Msg("format_keyboard", lang)>>,
              store |-> TRUE, lang |-> lang, data |-> data]

\* the steps of a render that can raise
PdfFailPoints == {"none", "build_pdf"}

SlidesFailPoints == {"none", "services", "create", "batchUpdate", "permissions"}

\* ensure_google_services(): raises only while the clients are not cached
ensure_google_services(cached, fail_at) ==
    IF cached THEN [raised |-> FALSE, cached |-> TRUE]
    ELSE IF fail_at = "services" THEN [raised |-> TRUE, cached |-> FALSE]
    ELSE [raised |-> FALSE, cached |-> TRUE]

\* build_slides returning the link although permissions().create raised
build_slides_LinkUnshared(cached, lang, data, fail_at) ==
    LET sv == ensure_google_services(cached, fail_at)
        created == ~sv.raised /\ fail_at # "create"
        filled == created /\ fail_at # "batchUpdate"
        shared == filled /\ fail_at # "permissions"
    IN  [raised |-> ~filled, cached |-> sv.cached, created |-> created,
         filled |-> filled, shared |-> shared,
         body |-> IF created THEN build_slides_requests(lang, data) ELSE <<>>]

\* build_slides(lang, data): how far it gets when the step fail_at raises
\* (created: the presentation exists; filled: batchUpdate was applied;
\* shared: the reader permission was granted; a link is returned iff ~raised)
build_slides(cached, lang, data, fail_at) ==
    LET sv == ensure_google_services(cached, fail_at)
        created == ~sv.raised /\ fail_at # "create"
        filled == created /\ fail_at # "batchUpdate"
        shared == filled /\ fail_at # "permissions"
    IN  [raised |-> ~shared, cached |-> sv.cached, created |-> created,
         filled |-> filled, shared |-> shared,
         body |-> IF created THEN build_slides_requests(lang, data) ELSE <<>>]

\* send_pdf(query, data, lang) when the step fail_at of build_pdf raises
send_pdf(lang, data, fail_at) ==
    IF fail_at = "build_pdf"
    THEN [msgs |-> <<Msg("answer_creating_pdf", lang), Msg("pdf_failed", lang)>>,
          pages |-> <<>>]
    ELSE [msgs |-> <<Msg("answer_creating_pdf", lang), Msg("document", lang)>>,
          pages |-> build_pdf(lang, data)]

\* send_slides(query, data, lang) when the step fail_at of build_slides raises
send_slides(cached, lang, data, fail_at) ==
    LET b == build_slides(cached, lang, data, fail_at)
    IN  [msgs |-> <<Msg("answer_creating_slides", lang)>>
                  \o (IF b.raised THEN <<Msg("slides_failed", lang)>>
                      ELSE <<Msg("deck_link", lang), Msg("another_format", lang)>>),
         build |-> b]

BotInit ==
    /\ transcript = <<>>
    /\ completion = NoReply
    /\ chat_data = NoChatData
    /\ pdf_pages = <<>>
    /\ slide_requests = <<>>
    /\ pc = "bot"
    /\ services = FALSE
    /\ requests = <<>>
    /\ doc_req = 0
    /\ clicks = 0
    /\ last = NoEvent
    /\ w_text = <<>>
    /\ w_max = 1
    /\ w_lines = <<>>
    /\ w_pc = "off"

\* handle_audio on the next audio update
BotAudio ==
    /\ pc = "bot"
    /\ Len(requests) < MaxAudio
    /\ \E upd \in AudioUpdates :
          LET res == handle_audio(upd)
              id == Len(requests) + 1
          IN  /\ transcript' = upd.text
              /\ completion' = upd.reply
              /\ chat_data' = IF res.store
                              THEN [has |-> TRUE, last_lang |-> res.lang,
                                    last_structured |-> res.data]
                              ELSE chat_data
              /\ doc_req' = IF res.store THEN id ELSE doc_req
              /\ requests' = Append(requests, [upd |-> upd, kind |-> res.kind,
                                               msgs |-> res.msgs, lang |-> res.lang,
                                               data |-> res.data, renders |-> 0])
              /\ last' = [NoEvent EXCEPT !.handler = "audio", !.origin = id, !.msgs = res.msgs]
    /\ UNCHANGED <<pdf_pages, slide_requests, pc, services, clicks>>
    /\ UNCHANGED wrapVars

\* the audio updates whose message carries the format keyboard
Keyboards == {r \in 1..Len(requests) : requests[r].kind \in {"structured", "fallback"}}

\* the renderer was handed the stored document once more
CountRender == requests' = [requests EXCEPT ![doc_req].renders = @ + 1]

\* handle_format_choice when chat_data holds no document
BotNoData ==
    /\ pc = "bot"
    /\ clicks < MaxClicks
    /\ ~chat_data.has
    /\ \E fmt \in {"format_pdf", "format_slides"} :
          last' = [NoEvent EXCEPT !.handler = "choice", !.fmt = fmt,
                                  !.msgs = <<Msg("answer", "en"),
                                             Msg("no_recent", chat_data.last_lang)>>]
    /\ clicks' = clicks + 1
    /\ UNCHANGED <<transcript, completion, chat_data, pdf_pages, slide_requests, pc,
                   services, requests, doc_req>>
    /\ UNCHANGED wrapVars

\* handle_format_choice with query.data = "format_pdf": send_pdf
BotFormatPdf ==
    /\ pc = "bot"
    /\ clicks < MaxClicks
    /\ chat_data.has
    /\ \E origin \in {0} \cup Keyboards, fail_at \in PdfFailPoints :
          LET res == send_pdf(chat_data.last_lang, chat_data.last_structured, fail_at)
          IN  /\ pdf_pages' = res.pages
              /\ last' = [NoEvent EXCEPT !.handler = "choice", !.origin = origin,
                                         !.fmt = "format_pdf", !.fail_at = fail_at,
                                         !.msgs = <<Msg("answer", "en")>> \o res.msgs,
                                         !.invoked = TRUE, !.doc_req = doc_req]
    /\ CountRender
    /\ clicks' = clicks + 1
    /\ UNCHANGED <<transcript, completion, chat_data, slide_requests, pc, services, doc_req>>
    /\ UNCHANGED wrapVars

\* handle_format_choice with query.data = "format_slides": send_slides
BotFormatSlides ==
    /\ pc = "bot"
    /\ clicks < MaxClicks
    /\ chat_data.has
    /\ \E origin \in {0} \cup Keyboards, fail_at \in SlidesFailPoints :
          LET res == send_slides(services, chat_data.last_lang, chat_data.last_structured,
                                 fail_at)
          IN  /\ slide_requests' = res.build.body
              /\ services' = res.build.cached
              /\ last' = [NoEvent EXCEPT !.handler = "choice", !.origin = origin,
                                         !.fmt = "format_slides", !.fail_at = fail_at,
                                         !.msgs = <<Msg("answer", "en")>> \o res.msgs,
                                         !.invoked = TRUE, !.doc_req = doc_req,
                                         !.created = res.build.created,
                                         !.filled = res.build.filled,
                                         !.shared = res.build.shared]
    /\ CountRender
    /\ clicks' = clicks + 1
    /\ UNCHANGED <<transcript, completion, chat_data, pdf_pages, pc, doc_req>>
    /\ UNCHANGED wrapVars

BotNext == BotAudio \/ BotNoData \/ BotFormatPdf \/ BotFormatSlides

SpecBot == BotInit /\ [][BotNext]_vars

----------------------------------------------------------------------------
(* Properties of the handlers, under SpecBot *)

\* the transcription step of request r raised
TranscriptionFailed(r) ==
    /\ requests[r].upd.media \in {"voice", "audio", "document"}
    /\ ~requests[r].upd.big
    /\ requests[r].upd.stt = "raise"

\* request r got a transcript and structure_text raised on it
StructuringFailed(r) ==
    /\ requests[r].upd.media \in {"voice", "audio", "document"}
    /\ ~requests[r].upd.big
    /\ requests[r].upd.stt = "ok"
    /\ ~IsBlank(requests[r].upd.text)
    /\ structure_text(requests[r].upd.text, requests[r].upd.reply).raised

\* handle_audio answered request r with the message m
Answered(r, m) == \E i \in 1..Len(requests[r].msgs) : requests[r].msgs[i].m = m

\* C13 as stated: whenever the transcription step or structure_text raises,
\* the user gets the retry prompt and no renderer ever runs on data of that
\* request.
C13_FailureNeverRendered ==
    \A r \in 1..Len(requests) :
        (TranscriptionFailed(r) \/ StructuringFailed(r)) =>
            /\ Answered(r, "retry_prompt")
            /\ requests[r].renders = 0

\* C13 amended: when the transcription step raises, the user gets the retry
\* prompt, nothing is stored and no renderer ever runs on data of that
\* request; when structure_text raises, there is no retry prompt:
\* handle_audio stores the degraded document cut from the transcript and
\* shows the format keyboard, so the renderers can run on it.
C13_TranscriptionFailureNeverRendered ==
    \A r \in 1..Len(requests) :
        /\ TranscriptionFailed(r) =>
              /\ requests[r].msgs = <<Msg("analysing", "ru"), Msg("retry_prompt", "ru")>>
              /\ requests[r].renders = 0
              /\ doc_req # r
        /\ StructuringFailed(r) =>
              /\ ~Answered(r, "retry_prompt")
              /\ Answered(r, "format_keyboard")
              /\ requests[r].data = FallbackData(requests[r].upd.text)
              /\ doc_req = r => chat_data.last_structured = requests[r].data

\* a request whose transcription failed, and one whose structuring failed and
\* whose degraded document was rendered
C13_Witness ==
    \E r, q \in 1..Len(requests) :
        /\ TranscriptionFailed(r)
        /\ StructuringFailed(q)
        /\ requests[q].renders > 0

\* request r got as far as structuring: a transcript that is not blank
Structured(r) ==
    /\ requests[r].upd.media \in {"voice", "audio", "document"}
    /\ ~requests[r].upd.big
    /\ requests[r].upd.stt = "ok"
    /\ ~IsBlank(requests[r].upd.text)

\* the last request that got as far as structuring (0: none)
LastStructured ==
    IF \E r \in 1..Len(requests) : Structured(r)
    THEN CHOOSE r \in 1..Len(requests) :
            Structured(r) /\ \A q \in (r + 1)..Len(requests) : ~Structured(q)
    ELSE 0

\* C14 as stated: the document built from one audio request is passed to a
\* renderer at most once, and never in response to the keyboard of a
\* different request.
C14_RenderedAtMostOnce ==
    /\ \A r \in 1..Len(requests) : requests[r].renders <= 1
    /\ (last.invoked /\ last.origin # 0) => last.doc_req = last.origin

\* C14 amended: the document built from an audio request is kept in chat_data
\* until the next request that gets as far as structuring replaces it, and is
\* passed to a renderer once for every format choice made meanwhile,
\* whichever keyboard the choice comes from: every renderer invocation gets
\* the document of the last such request, and a request's document is never
\* rendered before it is built or after it is replaced.
C14_RendersStoredDocument ==
    /\ doc_req = LastStructured
    /\ chat_data.has <=> doc_req # 0
    /\ chat_data.has =>
          /\ chat_data.last_structured = requests[doc_req].data
          /\ chat_data.last_lang = requests[doc_req].lang
    /\ last.invoked =>
          /\ last.doc_req = doc_req
          /\ requests[doc_req].renders >= 1
    /\ \A r \in 1..Len(requests) : ~Structured(r) => requests[r].renders = 0

\* a document rendered twice, the second time from the keyboard of an
\* earlier request
C14_Witness ==
    /\ last.invoked
    /\ last.origin # 0
    /\ last.origin # last.doc_req
    /\ requests[last.doc_req].renders = 2

\* the messages of the last handler whose text is one of ms
LastMsgs(ms) == SelectSeq(last.msgs, LAMBDA msg : msg.m \in ms)

\* a step of the last render raised
RenderFailed ==
    IF last.fmt = "format_pdf" THEN last.fail_at = "build_pdf"
    ELSE ~(last.created /\ last.filled /\ last.shared)

\* C15: a render request has no partial success: if a step of build_pdf or
\* build_slides (the clients, presentation creation, batch update, permission
\* grant) fails, neither a document nor a deck link is delivered and exactly
\* one failure message is sent; otherwise exactly one artifact is delivered
\* and no failure message; a deck link is delivered only for a presentation
\* that was created, filled and shared.
C15_NoPartialSuccess ==
    last.invoked =>
        /\ RenderFailed =>
              /\ LastMsgs({"document", "deck_link", "another_format"}) = <<>>
              /\ Len(LastMsgs({"pdf_failed", "slides_failed"})) = 1
              /\ last.fmt = "format_pdf" => pdf_pages = <<>>
        /\ ~RenderFailed =>
              /\ Len(LastMsgs({"document", "deck_link"})) = 1
              /\ LastMsgs({"pdf_failed", "slides_failed"}) = <<>>
        /\ LastMsgs({"deck_link"}) # <<>> => (last.created /\ last.filled /\ last.shared)
        /\ LastMsgs({"document"}) # <<>> =>
              pdf_pages = build_pdf(chat_data.last_lang, chat_data.last_structured)

\* the permission grant failed on a presentation that was created and filled
C15_Witness ==
    /\ last.invoked
    /\ last.fmt = "format_slides"
    /\ last.created /\ last.filled /\ ~last.shared
    /\ LastMsgs({"slides_failed"}) # <<>>

\* C19: a render request gets the output it would get alone on its own
\* document, the one built for the audio request whose keyboard was pressed,
\* whatever other requests of the chat come in between.
C19_RendersOwnDocument ==
    (last.invoked /\ last.origin # 0 /\ ~RenderFailed) =>
        IF last.fmt = "format_pdf"
        THEN pdf_pages = build_pdf(requests[last.origin].lang, requests[last.origin].data)
        ELSE slide_requests = build_slides_requests(requests[last.origin].lang,
                                                    requests[last.origin].data)

\* the update gets as far as structuring: an audio message of allowed size
\* with a transcript that is not blank
ReachesStructuring(upd) ==
    /\ upd.media \in {"voice", "audio", "document"}
    /\ ~upd.big
    /\ upd.stt = "ok"
    /\ ~IsBlank(upd.text)

\* what a step leaves alone: chat_data unless an update reached structuring,
\* and everything but the reply when a format is chosen with nothing stored
StoredDocumentFrame ==
    /\ chat_data' # chat_data =>
          /\ Len(requests') = Len(requests) + 1
          /\ ReachesStructuring(requests'[Len(requests')].upd)
    /\ (Len(requests') = Len(requests) + 1
        /\ ~ReachesStructuring(requests'[Len(requests')].upd)) =>
          /\ chat_data' = chat_data
          /\ doc_req' = doc_req
          /\ ~last'.invoked
    /\ clicks' # clicks =>
          /\ chat_data' = chat_data
          /\ doc_req' = doc_req
    /\ (clicks' # clicks /\ ~chat_data.has) =>
          /\ ~last'.invoked
          /\ [i \in 1..Len(last'.msgs) |-> last'.msgs[i].m] = <<"answer", "no_recent">>
          /\ requests' = requests
          /\ pdf_pages' = pdf_pages
          /\ slide_requests' = slide_requests
          /\ services' = services

\* C26: chat_data changes only when an audio update gets as far as
\* structuring: a message that is not audio, an oversized file, a failed
\* transcription and an empty transcript leave it unchanged, and no format
\* choice modifies it; a format choice with no stored document invokes no
\* renderer and only replies that there is no recent summary.
C26_StoredDocumentFrame == [][StoredDocumentFrame]_vars

\* a format was chosen with nothing stored; later a document was stored, an
\* update that did not reach structuring left it alone, and it was rendered
C26_Witness ==
    /\ clicks = 2
    /\ Len(requests) = 2
    /\ ReachesStructuring(requests[1].upd)
    /\ ~ReachesStructuring(requests[2].upd)
    /\ requests[1].renders = 1
    /\ chat_data.has
    /\ chat_data.last_structured = requests[1].data

====
